---- MODULE Spec2Model ----
(***************************************************************************)
(* smart-wait: cancellable, identifiable delays (the activeTimeouts        *)
(* registry of src/index.js) and waitWithRetry.                            *)
(*                                                                         *)
(* Spec      : the registry, its timers and promises, and process exit.    *)
(* FairSpec  : Spec with the event loop's fairness (time passes, a due     *)
(*             timer's callback runs).                                     *)
(* WaitSpec  : Spec together with plain wait(ms) delays; FairWaitSpec adds *)
(*             the event loop's fairness.                                  *)
(* ThrowSpec : Spec with an exit handler in which rejecting an entry may   *)
(*             raise.                                                      *)
(* RetrySpec : one call of waitWithRetry, split at its awaits;             *)
(*             FairRetrySpec adds that fn settles and sleeps end.          *)
(***************************************************************************)
EXTENDS Integers, Sequences, FiniteSets, Bags, TLC

VARIABLES
    activeTimeouts, \* the Map id -> {controller, cleanup}, in insertion order
    timers,         \* the armed setTimeout timers
    promises,       \* every promise created so far, by index
    uuids,          \* number of identifiers randomUUID has produced
    exited,         \* the 'exit' event has been emitted
    last,           \* the last call or callback and what it returned or threw
    cancelLog,      \* the bag of ids for which cancelWait returned true
    abandoned,      \* the promises updateWait replaced
    consoleErrors,  \* the ids whose teardown error console.error has logged
    cfg,            \* waitWithRetry: the options object passed by the caller
    retries,        \* waitWithRetry: destructured option
    delay,          \* waitWithRetry: destructured option
    backoff,        \* waitWithRetry: destructured option
    attempt,        \* waitWithRetry: let attempt
    currentDelay,   \* waitWithRetry: let currentDelay
    lastError,      \* waitWithRetry: let lastError
    pc,             \* waitWithRetry: where the async function is suspended
    events,         \* waitWithRetry: the invocations of fn and the sleeps, in order
    outcome         \* waitWithRetry: what the returned promise settled with

regVars   == <<activeTimeouts, timers, promises, uuids, exited, last, cancelLog, abandoned,
               consoleErrors>>
retryVars == <<cfg, retries, delay, backoff, attempt, currentDelay, lastError, pc, events, outcome>>
vars      == <<activeTimeouts, timers, promises, uuids, exited, last, cancelLog, abandoned,
               consoleErrors,
               cfg, retries, delay, backoff, attempt, currentDelay, lastError, pc, events, outcome>>

(***************************************************************************)
(* Bounds of the model.                                                    *)
(***************************************************************************)
MaxDelays == 2
MaxUpdates == 1
MaxWaits == 1
MaxMs == 1
MaxRetries == 3
MaxDelayMs == 2

\* without wait, every promise (and timer) is one of waitWithId or updateWait
MaxRegistryPromises == MaxDelays + MaxUpdates

(***************************************************************************)
(* Values.  An optional argument is <<>> when absent and <<v>> when given. *)
(***************************************************************************)
Durations == 0..MaxMs
Reasons == {<<>>, <<"">>, <<"Test cancellation">>}

\* randomUUID(): the n-th identifier produced; identifiers never repeat.
randomUUID_repeats(n) == "uuid-1"

randomUUID(n) == "uuid-" \o ToString(n)

IssuedIds == {randomUUID(n) : n \in 1..uuids}
\* what a caller may pass as id: any identifier ever returned, or a made-up one
IdArgs == IssuedIds \cup {"fake-id"}

Contains(s, sub) ==
    \E i \in 1..(Len(s) - Len(sub) + 1) : SubSeq(s, i, i + Len(sub) - 1) = sub

NoError == [name |-> "", code |-> "", id |-> "", message |-> ""]

\* class TimeoutError: super(reason || `Timeout ${id} cancelled`); the empty
\* string is falsy, as is a missing argument
TimeoutError(id, reason) ==
    [name |-> "TimeoutError", code |-> "ETIMEOUT", id |-> id,
     message |-> IF reason # <<>> /\ reason[1] # ""
                 THEN reason[1]
                 ELSE "Timeout " \o id \o " cancelled"]

(***************************************************************************)
(* Promises.  resolve and reject settle a pending promise and do nothing   *)
(* to a settled one; calls counts the resolve/reject calls made on it.     *)
(***************************************************************************)
\* origin and id record which function created the promise, and for which id.
NewPromise(origin, id) ==
    [state |-> "pending", value |-> "", error |-> NoError, calls |-> 0,
     origin |-> origin, id |-> id]

Resolve(ps, p, v) ==
    [ps EXCEPT ![p] = IF @.state = "pending"
                      THEN [@ EXCEPT !.state = "fulfilled", !.value = v, !.calls = @ + 1]
                      ELSE [@ EXCEPT !.calls = @ + 1]]

Reject(ps, p, e) ==
    [ps EXCEPT ![p] = IF @.state = "pending"
                      THEN [@ EXCEPT !.state = "rejected", !.error = e, !.calls = @ + 1]
                      ELSE [@ EXCEPT !.calls = @ + 1]]

Created(origin) == {p \in 1..Len(promises) : promises[p].origin = origin}

(***************************************************************************)
(* The Map activeTimeouts, as the sequence of its entries in insertion     *)
(* order.                                                                  *)
(***************************************************************************)
MapHas(m, id) == \E i \in 1..Len(m) : m[i].id = id

MapGet(m, id) == m[CHOOSE i \in 1..Len(m) : m[i].id = id]

MapDelete_all(m, id) == <<>>

MapDelete(m, id) == SelectSeq(m, LAMBDA e : e.id # id)

MapSet(m, id, e) ==
    IF MapHas(m, id)
    THEN [i \in 1..Len(m) |-> IF m[i].id = id THEN e ELSE m[i]]
    ELSE Append(m, e)

(***************************************************************************)
(* Timers.  A timer is armed from setTimeout until it fires or is cleared. *)
(***************************************************************************)
clearTimeout_all(ts, h) == {}

clearTimeout_noop(ts, h) == ts

clearTimeout(ts, h) == {t \in ts : t.handle # h}

Timer(h, kind, id, p, ms) ==
    [handle |-> h, kind |-> kind, id |-> id, promise |-> p, remaining |-> ms]

\* The state the registry's operations read and write.
State == [activeTimeouts |-> activeTimeouts, timers |-> timers, promises |-> promises]

\* An entry's cleanup closure: clearTimeout(timeout); activeTimeouts.delete(id)
cleanup_noDelete(st, e) ==
    [st EXCEPT !.timers = clearTimeout(@, e.timeout)]

cleanup(st, e) ==
    [st EXCEPT !.timers = clearTimeout(@, e.timeout),
               !.activeTimeouts = MapDelete(@, e.id)]

Entry(id, p, h) == [id |-> id, controller |-> p, timeout |-> h]

Call(op, id, result, p, e) ==
    [op |-> op, id |-> id, result |-> result, promise |-> p, error |-> e]

NoCall == Call("none", "", "void", 0, NoError)

Install(st) ==
    /\ activeTimeouts' = st.activeTimeouts
    /\ timers' = st.timers
    /\ promises' = st.promises

(***************************************************************************)
(* wait(ms): a promise that setTimeout resolves; nothing else can reach it.*)
(***************************************************************************)
wait(ms) ==
    /\ ~exited
    /\ Cardinality(Created("wait")) < MaxWaits
    /\ LET p == Len(promises) + 1 IN
         /\ promises' = Append(promises, NewPromise("wait", ""))
         /\ timers' = timers \cup {Timer(p, "wait", "", p, ms)}
         /\ last' = Call("wait", "", "promise", p, NoError)
    /\ UNCHANGED <<activeTimeouts, uuids, exited, cancelLog, abandoned, consoleErrors>>
    /\ UNCHANGED retryVars

(***************************************************************************)
(* waitWithId(ms): the controller's promise and the timer share the index  *)
(* p, since each controller is created together with exactly one timer.    *)
(***************************************************************************)
waitWithId(ms) ==
    /\ ~exited
    /\ uuids < MaxDelays
    /\ LET id == randomUUID(uuids + 1)
           p  == Len(promises) + 1
       IN
         /\ uuids' = uuids + 1
         /\ promises' = Append(promises, NewPromise("waitWithId", id))
         /\ timers' = timers \cup {Timer(p, "waitWithId", id, p, ms)}
         /\ activeTimeouts' = MapSet(activeTimeouts, id, Entry(id, p, p))
         /\ last' = Call("waitWithId", id, "promise", p, NoError)
    /\ UNCHANGED <<exited, cancelLog, abandoned, consoleErrors>>
    /\ UNCHANGED retryVars

(***************************************************************************)
(* cancelWait(id, reason), as the state it leaves and the value it returns.*)
(***************************************************************************)
cancelWaitOp_noCleanup(st, id, reason) ==
    IF ~MapHas(st.activeTimeouts, id)
    THEN [st |-> st, result |-> "false"]
    ELSE LET entry == MapGet(st.activeTimeouts, id)
             st1 == [st EXCEPT !.promises = Reject(@, entry.controller, TimeoutError(id, reason))]
         IN [st |-> st1, result |-> "true"]

cancelWaitOp_noGuard(st, id, reason) ==
    IF ~MapHas(st.activeTimeouts, id)
    THEN [st |-> st, result |-> "throw"]
    ELSE LET entry == MapGet(st.activeTimeouts, id)
             st1 == [st EXCEPT !.promises = Reject(@, entry.controller, TimeoutError(id, reason))]
         IN [st |-> cleanup(st1, entry), result |-> "true"]

cancelWaitOp(st, id, reason) ==
    IF ~MapHas(st.activeTimeouts, id)
    THEN [st |-> st, result |-> "false"]
    ELSE LET entry == MapGet(st.activeTimeouts, id)
             st1 == [st EXCEPT !.promises = Reject(@, entry.controller, TimeoutError(id, reason))]
         IN [st |-> cleanup(st1, entry), result |-> "true"]

cancelWait(id, reason) ==
    /\ ~exited
    /\ LET r == cancelWaitOp(State, id, reason) IN
         /\ Install(r.st)
         /\ last' = Call("cancelWait", id, r.result, 0, NoError)
         /\ cancelLog' = IF r.result = "true" THEN cancelLog (+) SetToBag({id}) ELSE cancelLog
    /\ UNCHANGED <<uuids, exited, abandoned, consoleErrors>>
    /\ UNCHANGED retryVars

(***************************************************************************)
(* updateWait(id, newMs), as the state it leaves and what it returns or    *)
(* throws.  The new controller and the new timer take the next index.      *)
(***************************************************************************)
updateWaitOp_keepsOldTimer(st, id, newMs) ==
    IF ~MapHas(st.activeTimeouts, id)
    THEN [st |-> st, result |-> "throw", promise |-> 0,
          error |-> TimeoutError(id, <<"Timeout not found">>), old |-> 0]
    ELSE LET entry == MapGet(st.activeTimeouts, id)
             p   == Len(st.promises) + 1
             st1 == [st EXCEPT !.promises = Append(@, NewPromise("updateWait", id))]
             st2 == [st1 EXCEPT !.activeTimeouts = MapDelete(@, entry.id)]
             st3 == [st2 EXCEPT !.timers = @ \cup {Timer(p, "updateWait", id, p, newMs)}]
             st4 == [st3 EXCEPT !.activeTimeouts = MapSet(@, id, Entry(id, p, p))]
         IN [st |-> st4, result |-> "promise", promise |-> p, error |-> NoError,
             old |-> entry.controller]

updateWaitOp_createsMissing(st, id, newMs) ==
    LET p   == Len(st.promises) + 1
        st1 == [st EXCEPT !.promises = Append(@, NewPromise("updateWait", id))]
        st2 == IF MapHas(st.activeTimeouts, id)
               THEN cleanup(st1, MapGet(st.activeTimeouts, id))
               ELSE st1
        st3 == [st2 EXCEPT !.timers = @ \cup {Timer(p, "updateWait", id, p, newMs)}]
        st4 == [st3 EXCEPT !.activeTimeouts = MapSet(@, id, Entry(id, p, p))]
    IN [st |-> st4, result |-> "promise", promise |-> p, error |-> NoError,
        old |-> IF MapHas(st.activeTimeouts, id)
                THEN MapGet(st.activeTimeouts, id).controller ELSE 0]

updateWaitOp_keepsDeadline(st, id, newMs) ==
    IF ~MapHas(st.activeTimeouts, id)
    THEN [st |-> st, result |-> "throw", promise |-> 0,
          error |-> TimeoutError(id, <<"Timeout not found">>), old |-> 0]
    ELSE LET entry == MapGet(st.activeTimeouts, id)
             due == (CHOOSE t \in st.timers : t.handle = entry.timeout).remaining
             p == Len(st.promises) + 1
             st1 == [st EXCEPT !.promises = Append(@, NewPromise("updateWait", id))]
             st2 == cleanup(st1, entry)
             st3 == [st2 EXCEPT !.timers = @ \cup {Timer(p, "updateWait", id, p, due)}]
             st4 == [st3 EXCEPT !.activeTimeouts = MapSet(@, id, Entry(id, p, p))]
         IN [st |-> st4, result |-> "promise", promise |-> p, error |-> NoError,
             old |-> entry.controller]

updateWaitOp(st, id, newMs) ==
    IF ~MapHas(st.activeTimeouts, id)
    THEN [st |-> st, result |-> "throw", promise |-> 0,
          error |-> TimeoutError(id, <<"Timeout not found">>), old |-> 0]
    ELSE LET entry == MapGet(st.activeTimeouts, id)
             p   == Len(st.promises) + 1
             st1 == [st EXCEPT !.promises = Append(@, NewPromise("updateWait", id))]
             st2 == cleanup(st1, entry)
             st3 == [st2 EXCEPT !.timers = @ \cup {Timer(p, "updateWait", id, p, newMs)}]
             st4 == [st3 EXCEPT !.activeTimeouts = MapSet(@, id, Entry(id, p, p))]
         IN [st |-> st4, result |-> "promise", promise |-> p, error |-> NoError,
             old |-> entry.controller]

updateWait(id, newMs) ==
    /\ ~exited
    /\ MapHas(activeTimeouts, id) => Cardinality(Created("updateWait")) < MaxUpdates
    /\ LET r == updateWaitOp(State, id, newMs) IN
         /\ Install(r.st)
         /\ last' = Call("updateWait", id, r.result, r.promise, r.error)
         /\ abandoned' = IF r.old # 0 THEN abandoned \cup {r.old} ELSE abandoned
    /\ UNCHANGED <<uuids, exited, cancelLog, consoleErrors>>
    /\ UNCHANGED retryVars

(***************************************************************************)
(* The event loop: time passes for every armed timer, and a due timer's    *)
(* callback runs, which retires the timer.                                 *)
(***************************************************************************)
Tick ==
    /\ ~exited
    /\ \E t \in timers : t.remaining > 0
    /\ timers' = {[t EXCEPT !.remaining = IF @ > 0 THEN @ - 1 ELSE 0] : t \in timers}
    /\ last' = Call("tick", "", "void", 0, NoError)
    /\ UNCHANGED <<activeTimeouts, promises, uuids, exited, cancelLog, abandoned, consoleErrors>>
    /\ UNCHANGED retryVars

CompletedMessage(id) == "Completed timeout ID: " \o id

UpdatedMessage(id) == "Updated timeout ID: " \o id

\* the callback each function hands to setTimeout, run on the state fired
Callback_noMapDelete(fired, t) ==
    IF t.kind = "waitWithId"
    THEN [fired EXCEPT !.promises = Resolve(@, t.promise, CompletedMessage(t.id))]
    ELSE IF t.kind = "updateWait"
    THEN [fired EXCEPT !.promises = Resolve(@, t.promise, UpdatedMessage(t.id))]
    ELSE [fired EXCEPT !.promises = Resolve(@, t.promise, "")]

Callback(fired, t) ==
    IF t.kind = "waitWithId"
    THEN cleanup([fired EXCEPT !.promises = Resolve(@, t.promise, CompletedMessage(t.id))],
                 Entry(t.id, t.promise, t.handle))
    ELSE IF t.kind = "updateWait"
    THEN [fired EXCEPT !.promises = Resolve(@, t.promise, UpdatedMessage(t.id)),
                       !.activeTimeouts = MapDelete(@, t.id)]
    ELSE [fired EXCEPT !.promises = Resolve(@, t.promise, "")]

TimerFires(h) ==
    /\ ~exited
    /\ \E t \in timers :
         /\ t.handle = h
         /\ t.remaining = 0
         /\ Install(Callback([State EXCEPT !.timers = @ \ {t}], t))
         /\ last' = Call("timeout", t.id, "void", t.promise, NoError)
    /\ UNCHANGED <<uuids, exited, cancelLog, abandoned, consoleErrors>>
    /\ UNCHANGED retryVars

(***************************************************************************)
(* process.on('exit'): for (const [id, entry] of activeTimeouts), visiting *)
(* the keys in insertion order and skipping a key deleted meanwhile.       *)
(***************************************************************************)
ExitBody_skipsCleanup(st, id) ==
    LET entry == MapGet(st.activeTimeouts, id) IN
    [st EXCEPT !.promises =
        Reject(@, entry.controller, TimeoutError(id, <<"Process exiting">>))]

ExitBody(st, id) ==
    LET entry == MapGet(st.activeTimeouts, id)
        st1 == [st EXCEPT !.promises =
                   Reject(@, entry.controller, TimeoutError(id, <<"Process exiting">>))]
    IN cleanup(st1, entry)

\* try { reject; cleanup } catch (e) { console.error('Cleanup error:', e) }:
\* for an id in throwing the reject call raises, so the entry's cleanup is
\* skipped and the error is logged
ExitTry(st, id, throwing) ==
    IF id \in throwing
    THEN [st EXCEPT !.console = Append(@, id)]
    ELSE ExitBody(st, id)

\* the try statement around the whole for loop: the first exception ends it
RECURSIVE ExitLoop_tryAroundLoop(_, _, _)
ExitLoop_tryAroundLoop(keys, st, throwing) ==
    IF keys = <<>> THEN st
    ELSE IF MapHas(st.activeTimeouts, Head(keys))
         THEN IF Head(keys) \in throwing
              THEN ExitTry(st, Head(keys), throwing)
              ELSE ExitLoop_tryAroundLoop(Tail(keys), ExitTry(st, Head(keys), throwing), throwing)
         ELSE ExitLoop_tryAroundLoop(Tail(keys), st, throwing)

RECURSIVE ExitLoop(_, _, _)
ExitLoop(keys, st, throwing) ==
    IF keys = <<>> THEN st
    ELSE IF MapHas(st.activeTimeouts, Head(keys))
         THEN ExitLoop(Tail(keys), ExitTry(st, Head(keys), throwing), throwing)
         ELSE ExitLoop(Tail(keys), st, throwing)

MapKeys(m) == [i \in 1..Len(m) |-> m[i].id]

\* the 'exit' handler, in a run where rejecting the entries of the ids in
\* throwing raises an exception
ProcessExitThrowing(throwing) ==
    /\ ~exited
    /\ exited' = TRUE
    /\ LET st == ExitLoop(MapKeys(activeTimeouts),
                          [activeTimeouts |-> activeTimeouts, timers |-> timers,
                           promises |-> promises, console |-> consoleErrors],
                          throwing)
       IN /\ Install(st)
          /\ consoleErrors' = st.console
    /\ last' = Call("exit", "", "void", 0, NoError)
    /\ UNCHANGED <<uuids, cancelLog, abandoned>>
    /\ UNCHANGED retryVars

\* the 'exit' handler as the program runs it: a controller's reject and an
\* entry's cleanup raise nothing
ProcessExit == ProcessExitThrowing({})

(***************************************************************************)
(* waitWithRetry.  A JavaScript value thrown or returned by fn is a record *)
(* of its type and content.                                                *)
(***************************************************************************)
DefaultRetries == 3
DefaultDelay == 2000

Undefined == [type |-> "undefined", num |-> 0, text |-> ""]
ErrorValue(msg) == [type |-> "Error", num |-> 0, text |-> msg]
NumberValue(n) == [type |-> "number", num |-> n, text |-> ""]
StringValue(str) == [type |-> "string", num |-> 0, text |-> str]

\* String(v), as the Error constructor applies it to its message argument
String(v) ==
    IF v.type = "number" THEN ToString(v.num)
    ELSE IF v.type = "string" THEN v.text
    ELSE IF v.type = "Error" THEN "Error: " \o v.text
    ELSE "undefined"

\* new Error(v): an undefined message is left empty
NewError(v) == ErrorValue(IF v.type = "undefined" THEN "" ELSE String(v))

Successes == {StringValue("success"), Undefined}
Failures == {ErrorValue("boom"), NumberValue(42), StringValue("permanent"), Undefined}

RetriesArgs == {<<>>} \cup {<<n>> : n \in 0..MaxRetries}
DelayArgs == {<<>>} \cup {<<d>> : d \in (0..MaxDelayMs) \cup {100}}
BackoffArgs == {<<>>, <<"fixed">>, <<"exponential">>}
Configs == [retries : RetriesArgs, delay : DelayArgs, backoff : BackoffArgs]
NoConfig == [retries |-> <<>>, delay |-> <<>>, backoff |-> <<>>]

\* a destructuring default: { x = dflt }
Default(arg, dflt) == IF arg = <<>> THEN dflt ELSE arg[1]

NoRetryError == [name |-> "", message |-> "", cause |-> Undefined, attempts |-> 0, finalDelay |-> 0]

\* class RetryError
RetryError_initialDelay(originalError, attemptsMade, finalDelay) ==
    [name |-> "RetryError",
     message |-> "Retry failed after " \o ToString(attemptsMade) \o " attempts",
     cause |-> IF originalError.type = "Error" THEN originalError ELSE NewError(originalError),
     attempts |-> attemptsMade,
     finalDelay |-> delay]

RetryError_alwaysWraps(originalError, attemptsMade, finalDelay) ==
    [name |-> "RetryError",
     message |-> "Retry failed after " \o ToString(attemptsMade) \o " attempts",
     cause |-> NewError(originalError),
     attempts |-> attemptsMade,
     finalDelay |-> finalDelay]

RetryError(originalError, attemptsMade, finalDelay) ==
    [name |-> "RetryError",
     message |-> "Retry failed after " \o ToString(attemptsMade) \o " attempts",
     cause |-> IF originalError.type = "Error" THEN originalError ELSE NewError(originalError),
     attempts |-> attemptsMade,
     finalDelay |-> finalDelay]

Pending == [state |-> "pending", value |-> Undefined, error |-> NoRetryError]
Returned(v) == [state |-> "fulfilled", value |-> v, error |-> NoRetryError]
Raised(e) == [state |-> "rejected", value |-> Undefined, error |-> e]

\* the trace of one waitWithRetry call: fn is called, fn fulfils with val or
\* rejects, the function sleeps for ms
CallEvent == [kind |-> "call", ms |-> 0, val |-> Undefined]
OkEvent(v) == [kind |-> "ok", ms |-> 0, val |-> v]
FailEvent(e) == [kind |-> "fail", ms |-> 0, val |-> e]
SleepEvent(ms) == [kind |-> "sleep", ms |-> ms, val |-> Undefined]

\* if (attempt >= retries) break;
Exhausted_offByOne(a, r) == a > r

Exhausted(a, r) == a >= r

\* if (backoff === 'exponential') currentDelay *= 2;
Backoff_doublesAfterSleep(policy, d) ==
    IF policy = "exponential" /\ attempt > 0 THEN d * 2 ELSE d

Backoff(policy, d) == IF policy = "exponential" THEN d * 2 ELSE d

\* while (attempt <= retries) { try { return await fn(); ...
Invoke ==
    /\ pc = "loop"
    /\ IF attempt <= retries
       THEN /\ events' = Append(events, CallEvent)
            /\ pc' = "fn"
            /\ UNCHANGED outcome
       ELSE /\ outcome' = Raised(RetryError(lastError, attempt + 1, currentDelay))
            /\ pc' = "done"
            /\ UNCHANGED events
    /\ UNCHANGED <<cfg, retries, delay, backoff, attempt, currentDelay, lastError>>
    /\ UNCHANGED regVars

\* fn() returned v, or a promise that fulfilled with v: return it
FnSucceeds_retriesAnyway(v) ==
    /\ pc = "fn"
    /\ IF attempt >= retries
       THEN /\ outcome' = Returned(v)
            /\ pc' = "done"
            /\ events' = Append(events, OkEvent(v))
            /\ UNCHANGED attempt
       ELSE /\ events' = events \o <<OkEvent(v), SleepEvent(currentDelay)>>
            /\ attempt' = attempt + 1
            /\ pc' = "loop"
            /\ UNCHANGED outcome
    /\ UNCHANGED <<cfg, retries, delay, backoff, currentDelay, lastError>>
    /\ UNCHANGED regVars

FnSucceeds(v) ==
    /\ pc = "fn"
    /\ outcome' = Returned(v)
    /\ pc' = "done"
    /\ events' = Append(events, OkEvent(v))
    /\ UNCHANGED <<cfg, retries, delay, backoff, attempt, currentDelay, lastError>>
    /\ UNCHANGED regVars

\* fn() threw error, or returned a promise that rejected with it: the catch block
FnFails_doublesFirst(error) ==
    /\ pc = "fn"
    /\ lastError' = error
    /\ currentDelay' = Backoff(backoff, currentDelay)
    /\ IF Exhausted(attempt, retries)
       THEN /\ outcome' = Raised(RetryError(error, attempt + 1, Backoff(backoff, currentDelay)))
            /\ pc' = "done"
            /\ events' = Append(events, FailEvent(error))
       ELSE /\ events' = events \o <<FailEvent(error), SleepEvent(Backoff(backoff, currentDelay))>>
            /\ pc' = "sleep"
            /\ UNCHANGED outcome
    /\ UNCHANGED <<cfg, retries, delay, backoff, attempt>>
    /\ UNCHANGED regVars

FnFails(error) ==
    /\ pc = "fn"
    /\ lastError' = error
    /\ IF Exhausted(attempt, retries)
       THEN /\ outcome' = Raised(RetryError(error, attempt + 1, currentDelay))
            /\ pc' = "done"
            /\ events' = Append(events, FailEvent(error))
            /\ UNCHANGED currentDelay
       ELSE /\ currentDelay' = Backoff(backoff, currentDelay)
            /\ events' = events \o <<FailEvent(error), SleepEvent(Backoff(backoff, currentDelay))>>
            /\ pc' = "sleep"
            /\ UNCHANGED outcome
    /\ UNCHANGED <<cfg, retries, delay, backoff, attempt>>
    /\ UNCHANGED regVars

\* the sleep's timer fires: attempt++, back to the loop test
SleepEnds_noIncrement ==
    /\ pc = "sleep"
    /\ pc' = "loop"
    /\ UNCHANGED <<cfg, retries, delay, backoff, attempt, currentDelay, lastError, events, outcome>>
    /\ UNCHANGED regVars

SleepEnds ==
    /\ pc = "sleep"
    /\ attempt' = attempt + 1
    /\ pc' = "loop"
    /\ UNCHANGED <<cfg, retries, delay, backoff, currentDelay, lastError, events, outcome>>
    /\ UNCHANGED regVars

(***************************************************************************)
(* Specifications.                                                         *)
(***************************************************************************)
RegistryInit ==
    /\ activeTimeouts = <<>>
    /\ timers = {}
    /\ promises = <<>>
    /\ uuids = 0
    /\ exited = FALSE
    /\ last = NoCall
    /\ cancelLog = EmptyBag
    /\ abandoned = {}
    /\ consoleErrors = <<>>

\* waitWithRetry(fn, c) has run up to its loop
RetryCalled(c) ==
    /\ cfg = c
    /\ retries = Default(c.retries, DefaultRetries)
    /\ delay = Default(c.delay, DefaultDelay)
    /\ backoff = Default(c.backoff, "fixed")
    /\ attempt = 0
    /\ currentDelay = Default(c.delay, DefaultDelay)
    /\ lastError = Undefined
    /\ events = <<>>
    /\ outcome = Pending

Init ==
    /\ RegistryInit
    /\ RetryCalled(NoConfig)
    /\ pc = "idle"

Next ==
    \/ \E ms \in Durations : waitWithId(ms)
    \/ \E id \in IdArgs, reason \in Reasons : cancelWait(id, reason)
    \/ \E id \in IdArgs, newMs \in Durations : updateWait(id, newMs)
    \/ Tick
    \/ \E h \in 1..Len(promises) : TimerFires(h)
    \/ ProcessExit

Spec == Init /\ [][Next]_vars

\* the event loop keeps running: time passes and every due callback is run
FairSpec ==
    /\ Spec
    /\ WF_vars(Tick)
    /\ \A h \in 1..MaxRegistryPromises : WF_vars(TimerFires(h))

\* the registry together with plain wait(ms) delays
WaitNext ==
    \/ Next
    \/ \E ms \in Durations : wait(ms)

WaitSpec == Init /\ [][WaitNext]_vars

\* WaitSpec with the event loop's fairness
FairWaitSpec ==
    /\ WaitSpec
    /\ WF_vars(Tick)
    /\ \A h \in 1..(MaxRegistryPromises + MaxWaits) : WF_vars(TimerFires(h))

\* the registry when rejecting an entry at teardown may raise
ThrowNext ==
    \/ Next
    \/ \E throwing \in (SUBSET IssuedIds) \ {{}} :
         throwing \subseteq {activeTimeouts[i].id : i \in 1..Len(activeTimeouts)}
         /\ ProcessExitThrowing(throwing)

ThrowSpec == Init /\ [][ThrowNext]_vars

RetryInit ==
    /\ RegistryInit
    /\ \E c \in Configs : RetryCalled(c)
    /\ pc = "loop"

RetryNext ==
    \/ Invoke
    \/ \E v \in Successes : FnSucceeds(v)
    \/ \E e \in Failures : FnFails(e)
    \/ SleepEnds

RetrySpec == RetryInit /\ [][RetryNext]_vars

\* every invocation of fn completes and every sleep's timer fires
FairRetrySpec == RetrySpec /\ WF_vars(RetryNext)

(***************************************************************************)
(* Properties of the registry.                                             *)
(***************************************************************************)
DefaultMessage(id) == "Timeout " \o id \o " cancelled"

RegistryTimers == {t \in timers : t.kind # "wait"}

\* the step was a call of cancelWait(id, reason) on an id that had an entry
CancelsLive(id, reason) ==
    /\ last'.op = "cancelWait"
    /\ last'.id = id
    /\ MapHas(activeTimeouts, id)
    /\ cancelWait(id, reason)

\* what every cancelWait on a live id does, whatever the message
CancelEffect(id) ==
    LET p == MapGet(activeTimeouts, id).controller IN
    /\ last'.result = "true"
    /\ promises[p].state = "pending"
    /\ promises'[p].state = "rejected"
    /\ promises'[p].error.name = "TimeoutError"
    /\ promises'[p].error.id = id
    /\ ~MapHas(activeTimeouts', id)
    /\ \A t \in timers' : t.id # id

CancelOnce ==
    /\ [](\A id \in BagToSet(cancelLog) : CopiesIn(id, cancelLog) = 1)
    /\ [][\A id \in BagToSet(cancelLog) :
            (last'.op = "cancelWait" /\ last'.id = id) => last'.result = "false"]_vars

\* C1 (as stated): cancelWait(id, reason) on a live id returns true, rejects the
\* promise registered under id with a TimeoutError carrying id and the given
\* reason as its message (the default message only when no reason is given), and
\* removes the entry; later cancels of id return false, so cancelWait returns
\* true at most once per id.
C1_Original ==
    /\ CancelOnce
    /\ [][\A id \in IdArgs, reason \in Reasons :
            CancelsLive(id, reason) =>
                /\ CancelEffect(id)
                /\ promises'[MapGet(activeTimeouts, id).controller].error.message =
                       IF reason = <<>> THEN DefaultMessage(id) ELSE reason[1]]_vars

\* C1 (amended): as C1, except that the message is the given reason only when
\* the reason is a non-empty string; when the reason is absent or the empty
\* string the message is the default 'Timeout {id} cancelled'.
C1_CancelLive ==
    /\ CancelOnce
    /\ [][\A id \in IdArgs, reason \in Reasons :
            CancelsLive(id, reason) =>
                /\ CancelEffect(id)
                /\ promises'[MapGet(activeTimeouts, id).controller].error.message =
                       IF reason = <<>> \/ reason[1] = ""
                       THEN DefaultMessage(id) ELSE reason[1]]_vars

\* a delay was cancelled with an explicit reason and a later cancel of the same
\* id returned false
C1_Witness ==
    /\ last.op = "cancelWait"
    /\ last.result = "false"
    /\ BagIn(last.id, cancelLog)
    /\ \E p \in 1..Len(promises) :
         /\ promises[p].id = last.id
         /\ promises[p].state = "rejected"
         /\ promises[p].error.message = "Test cancellation"

\* C2: updateWait(id, newMs) on a live id returns a new promise, distinct from
\* the one registered before; the replaced promise is never settled afterwards
\* by any event; a later cancelWait(id) rejects the new promise, not the old.
C2_UpdateFresh ==
    /\ [][\A id \in IdArgs, newMs \in Durations :
            (/\ last'.op = "updateWait"
             /\ last'.id = id
             /\ MapHas(activeTimeouts, id)
             /\ updateWait(id, newMs)) =>
                LET old == MapGet(activeTimeouts, id).controller IN
                /\ last'.result = "promise"
                /\ last'.promise # old
                /\ last'.promise \notin 1..Len(promises)
                /\ promises'[last'.promise].state = "pending"
                /\ MapGet(activeTimeouts', id).controller = last'.promise
                /\ promises'[old] = promises[old]
                /\ old \in abandoned']_vars
    /\ [](\A p \in abandoned : promises[p].state = "pending" /\ promises[p].calls = 0)
    /\ [][\A id \in IdArgs, reason \in Reasons :
            CancelsLive(id, reason) =>
                LET p == MapGet(activeTimeouts, id).controller IN
                /\ p \notin abandoned
                /\ promises'[p].state = "rejected"
                /\ \A q \in abandoned : promises'[q] = promises[q]]_vars

\* after an update, cancelWait rejected the new promise and the old is pending
C2_Witness ==
    /\ last.op = "cancelWait"
    /\ last.result = "true"
    /\ \E p \in 1..Len(promises) :
         /\ promises[p].origin = "updateWait"
         /\ promises[p].id = last.id
         /\ promises[p].state = "rejected"
    /\ \E q \in abandoned : promises[q].id = last.id /\ promises[q].state = "pending"

\* the promise waitWithId returned together with id
OriginalOf(id) ==
    {p \in 1..Len(promises) : promises[p].origin = "waitWithId" /\ promises[p].id = id}

\* C3: a delay created by waitWithId that is never cancelled, updated or torn
\* down eventually has its timer fire; that step resolves its promise with a
\* message embedding the returned id and removes its entry; the promise is
\* rejected only by cancelWait or by teardown.
C3_NaturalCompletion ==
    /\ \A n \in 1..MaxDelays :
         (n <= uuids) ~>
            (\E p \in OriginalOf(randomUUID(n)) :
                \/ promises[p].state = "fulfilled"
                \/ promises[p].state = "rejected"
                \/ p \in abandoned)
    /\ [][\A p \in 1..Len(promises) :
            (promises[p].origin = "waitWithId" /\ promises'[p] # promises[p]) =>
                \/ /\ last'.op = "timeout"
                   /\ promises'[p].state = "fulfilled"
                   /\ Contains(promises'[p].value, promises[p].id)
                   /\ promises'[p].value = "Completed timeout ID: " \o promises[p].id
                   /\ MapHas(activeTimeouts, promises[p].id)
                   /\ ~MapHas(activeTimeouts', promises[p].id)
                   /\ \A t \in timers' : t.id # promises[p].id
                \/ /\ last'.op \in {"cancelWait", "exit"}
                   /\ promises'[p].state = "rejected"]_vars
    /\ [](\A p \in 1..Len(promises) :
            (promises[p].origin = "waitWithId" /\ promises[p].state = "fulfilled") =>
                promises[p].calls = 1)

\* a waitWithId delay completed naturally
C3_Witness ==
    /\ last.op = "timeout"
    /\ \E p \in 1..Len(promises) :
         /\ p = last.promise
         /\ promises[p].origin = "waitWithId"
         /\ promises[p].state = "fulfilled"
         /\ ~MapHas(activeTimeouts, promises[p].id)

NotFound(id) ==
    [name |-> "TimeoutError", code |-> "ETIMEOUT", id |-> id, message |-> "Timeout not found"]

\* C7: updateWait(id, newMs) on an id with no entry throws (returns no promise)
\* a TimeoutError with message 'Timeout not found' carrying id, and changes
\* neither the registry, nor any timer, nor any promise; id gets no entry.
C7_UpdateMissing ==
    [][\A id \in IdArgs, newMs \in Durations :
         (/\ last'.op = "updateWait"
          /\ last'.id = id
          /\ ~MapHas(activeTimeouts, id)
          /\ updateWait(id, newMs)) =>
             /\ last'.result = "throw"
             /\ last'.promise = 0
             /\ last'.error = NotFound(id)
             /\ activeTimeouts' = activeTimeouts
             /\ timers' = timers
             /\ promises' = promises
             /\ ~MapHas(activeTimeouts', id)]_vars

\* updateWait threw for an id that was issued earlier, while another delay was
\* pending
C7_Witness ==
    /\ last.op = "updateWait"
    /\ last.result = "throw"
    /\ last.id \in IssuedIds
    /\ activeTimeouts # <<>>
    /\ timers # {}

\* C8: cancelWait(id, reason) on an id with no entry returns false, does not
\* throw, and changes neither the registry, nor any timer, nor any promise.
C8_CancelMissing ==
    [][\A id \in IdArgs, reason \in Reasons :
         (/\ last'.op = "cancelWait"
          /\ last'.id = id
          /\ ~MapHas(activeTimeouts, id)
          /\ cancelWait(id, reason)) =>
             /\ last'.result = "false"
             /\ activeTimeouts' = activeTimeouts
             /\ timers' = timers
             /\ promises' = promises]_vars

\* cancelWait returned false for a made-up id while a delay was pending
C8_Witness ==
    /\ last.op = "cancelWait"
    /\ last.result = "false"
    /\ last.id = "fake-id"
    /\ activeTimeouts # <<>>
    /\ timers # {}

ProcessExiting(id) ==
    [name |-> "TimeoutError", code |-> "ETIMEOUT", id |-> id, message |-> "Process exiting"]

\* C9: the exit handler rejects the promise of every entry left in the registry
\* with TimeoutError(id, 'Process exiting') for that entry's id and clears
\* every entry's timer; afterwards the registry is empty and no registry timer
\* is armed.
C9_Teardown ==
    /\ [][(last'.op = "exit" /\ ProcessExit) =>
            /\ \A i \in 1..Len(activeTimeouts) :
                 LET e == activeTimeouts[i] IN
                 /\ promises[e.controller].state = "pending"
                 /\ promises'[e.controller].state = "rejected"
                 /\ promises'[e.controller].error = ProcessExiting(e.id)
                 /\ \A t \in timers' : t.handle # e.timeout
            /\ activeTimeouts' = <<>>
            /\ {t \in timers' : t.kind # "wait"} = {}]_vars
    /\ [](exited => activeTimeouts = <<>> /\ RegistryTimers = {})

\* the process exited with two delays pending, one of them updated before
C9_Witness ==
    /\ exited
    /\ Cardinality({p \in 1..Len(promises) :
                      /\ promises[p].state = "rejected"
                      /\ promises[p].error.message = "Process exiting"}) >= 2
    /\ \E p \in 1..Len(promises) :
         /\ promises[p].origin = "updateWait"
         /\ promises[p].error.message = "Process exiting"

(***************************************************************************)
(* Properties of waitWithRetry.                                            *)
(***************************************************************************)
Count(ev, kind) == Cardinality({i \in 1..Len(ev) : ev[i].kind = kind})

\* the durations of the sleeps, in order
SleepsOf(ev) ==
    LET sl == SelectSeq(ev, LAMBDA e : e.kind = "sleep")
    IN [i \in 1..Len(sl) |-> sl[i].ms]

RECURSIVE Pow2(_)
Pow2(n) == IF n = 0 THEN 1 ELSE 2 * Pow2(n - 1)

\* n failed attempts with a sleep after each but the last, and nothing else
FailedAttempts(ev, n) ==
    /\ Len(ev) = 3 * n - 1
    /\ \A i \in 1..Len(ev) :
         ev[i].kind = IF i % 3 = 1 THEN "call" ELSE IF i % 3 = 2 THEN "fail" ELSE "sleep"

AlwaysFailed == pc = "done" /\ Count(events, "ok") = 0

\* C4: with backoff 'fixed', retries r and delay d, when every invocation
\* fails: fn is invoked r+1 times, there are r sleeps of d each, one between
\* consecutive attempts and none after the last, and the call rejects with a
\* RetryError with attempts = r+1 and finalDelay = d.
C4_FixedBackoff ==
    (AlwaysFailed /\ backoff = "fixed") =>
        /\ Count(events, "call") = retries + 1
        /\ Count(events, "sleep") = retries
        /\ FailedAttempts(events, retries + 1)
        /\ SleepsOf(events) = [i \in 1..retries |-> delay]
        /\ outcome.state = "rejected"
        /\ outcome.error.name = "RetryError"
        /\ outcome.error.attempts = retries + 1
        /\ outcome.error.finalDelay = delay

\* retries: 2, delay: 100, backoff: 'fixed' on an always-failing fn
C4_Witness ==
    /\ AlwaysFailed
    /\ cfg = [retries |-> <<2>>, delay |-> <<100>>, backoff |-> <<"fixed">>]
    /\ SleepsOf(events) = <<100, 100>>
    /\ outcome.error.attempts = 3

\* C5: with backoff 'exponential', retries r and delay d, when every
\* invocation fails: the i-th sleep (i = 1..r) lasts d*2^i, and the RetryError
\* has attempts = r+1 and finalDelay = d*2^r.
C5_ExponentialBackoff ==
    (AlwaysFailed /\ backoff = "exponential") =>
        /\ FailedAttempts(events, retries + 1)
        /\ SleepsOf(events) = [i \in 1..retries |-> delay * Pow2(i)]
        /\ outcome.state = "rejected"
        /\ outcome.error.name = "RetryError"
        /\ outcome.error.attempts = retries + 1
        /\ outcome.error.finalDelay = delay * Pow2(retries)

\* retries: 2, delay: 100, backoff: 'exponential': sleeps 200, 400, finalDelay 400
C5_Witness ==
    /\ AlwaysFailed
    /\ cfg = [retries |-> <<2>>, delay |-> <<100>>, backoff |-> <<"exponential">>]
    /\ SleepsOf(events) = <<200, 400>>
    /\ outcome.error.finalDelay = 400

\* C6: when fn fails k-1 times and then succeeds (k <= r+1), waitWithRetry
\* returns the value of that success, fn is invoked exactly k times and never
\* after the success, there are exactly k-1 sleeps, and no RetryError is raised.
C6_SuccessStops ==
    /\ \A i \in 1..Len(events) : events[i].kind = "ok" => i = Len(events)
    /\ (pc = "done" /\ Count(events, "ok") > 0) =>
          LET k == Count(events, "call") IN
          /\ k <= retries + 1
          /\ Count(events, "fail") = k - 1
          /\ Count(events, "sleep") = k - 1
          /\ Len(events) = 3 * k - 1
          /\ \A i \in 1..(3 * k - 3) :
                events[i].kind =
                    IF i % 3 = 1 THEN "call" ELSE IF i % 3 = 2 THEN "fail" ELSE "sleep"
          /\ events[3 * k - 2].kind = "call"
          /\ events[3 * k - 1].kind = "ok"
          /\ outcome.state = "fulfilled"
          /\ outcome.value = events[Len(events)].val
          /\ outcome.error = NoRetryError

\* retries: 3: fn failed twice and then returned 'success'
C6_Witness ==
    /\ pc = "done"
    /\ retries = 3
    /\ Count(events, "call") = 3
    /\ Count(events, "sleep") = 2
    /\ outcome = Returned(StringValue("success"))

\* the delay of the last sleep performed, or the configured delay if none was
LastDelay == IF Count(events, "sleep") = 0 THEN delay
             ELSE SleepsOf(events)[Count(events, "sleep")]

\* C10 (as stated): on the exhausted path finalDelay is the delay a further
\* attempt would have been preceded by, that is the last delay doubled once
\* more under exponential backoff.
C10_Original ==
    (pc = "done" /\ outcome.state = "rejected") =>
        outcome.error.finalDelay =
            IF backoff = "exponential" THEN 2 * LastDelay ELSE LastDelay

\* C10 (amended): on the exhausted path finalDelay is the delay of the last
\* sleep actually performed (the configured delay when no sleep was performed):
\* d for fixed backoff and d*2^r for exponential backoff; it is not doubled
\* again after the final failure.
C10_FinalDelay ==
    (pc = "done" /\ outcome.state = "rejected") =>
        /\ outcome.error.finalDelay = LastDelay
        /\ outcome.error.finalDelay =
               IF backoff = "exponential" THEN delay * Pow2(retries) ELSE delay

\* an exhausted exponential retry that slept at least once, for a non-zero delay
C10_Witness ==
    /\ pc = "done"
    /\ outcome.state = "rejected"
    /\ backoff = "exponential"
    /\ retries >= 1
    /\ delay > 0
    /\ outcome.error.finalDelay = LastDelay

\* C11: with retries = 0, under either backoff policy, fn is invoked exactly
\* once and no sleep is performed; if that invocation fails the call raises a
\* RetryError with attempts = 1 and finalDelay equal to the configured delay,
\* never doubled.
C11_ZeroRetries ==
    retries = 0 =>
        /\ Count(events, "call") <= 1
        /\ Count(events, "sleep") = 0
        /\ pc # "sleep"
        /\ pc = "done" => Count(events, "call") = 1
        /\ Count(events, "fail") = 1 =>
             /\ pc = "done"
             /\ outcome.state = "rejected"
             /\ outcome.error.name = "RetryError"
             /\ outcome.error.attempts = 1
             /\ outcome.error.finalDelay = delay
             /\ outcome.error.finalDelay = Default(cfg.delay, DefaultDelay)

\* the single attempt of a call with retries = 0, a non-zero delay and
\* exponential backoff failed
C11_Witness ==
    /\ cfg.retries = <<0>>
    /\ cfg.backoff = <<"exponential">>
    /\ delay = MaxDelayMs
    /\ events = <<CallEvent, FailEvent(ErrorValue("boom"))>>
    /\ outcome.state = "rejected"
    /\ outcome.error.finalDelay = MaxDelayMs

\* the value fn failed with at its last invocation
LastFailure == events[Len(events)].val

\* the RetryError was raised right after the (retries + 1)-th invocation failed
RaisedAfterLastInvocation ==
    /\ Len(events) >= 2
    /\ events[Len(events)].kind = "fail"
    /\ events[Len(events) - 1].kind = "call"
    /\ Count(events, "call") = retries + 1
    /\ Count(events, "fail") = retries + 1

\* C12 as stated: the cause of a RetryError is the failure of the last
\* invocation itself when that is an Error, and otherwise a new Error whose
\* message is the textual form of that failure.
C12_Original ==
    outcome.state = "rejected" =>
        /\ RaisedAfterLastInvocation
        /\ outcome.error.cause =
             IF LastFailure.type = "Error" THEN LastFailure
             ELSE ErrorValue(String(LastFailure))

\* C12: the cause of a RetryError comes from the failure of the last, the
\* (retries + 1)-th, invocation and from no earlier one: an Error is carried
\* as it is; any other value gives a new Error whose message is the textual
\* form of the value (42 gives '42'), except that an undefined failure gives
\* the empty message.
C12_Cause ==
    outcome.state = "rejected" =>
        /\ RaisedAfterLastInvocation
        /\ outcome.error.cause.type = "Error"
        /\ LastFailure.type = "Error" => outcome.error.cause = LastFailure
        /\ LastFailure.type = "number" =>
             outcome.error.cause.text = ToString(LastFailure.num)
        /\ LastFailure = NumberValue(42) => outcome.error.cause.text = "42"
        /\ LastFailure.type = "string" =>
             outcome.error.cause.text = LastFailure.text
        /\ LastFailure.type = "undefined" => outcome.error.cause.text = ""

\* fn failed with an Error, then with 42, then with undefined: the cause has
\* the empty message
C12_Witness ==
    /\ outcome.state = "rejected"
    /\ retries = 2
    /\ events[2] = FailEvent(ErrorValue("boom"))
    /\ events[5] = FailEvent(NumberValue(42))
    /\ LastFailure = Undefined
    /\ outcome.error.cause = ErrorValue("")

\* C20: for every retries >= 0, delay >= 0, backoff policy and pattern of
\* successes and failures of an fn whose invocations complete, waitWithRetry
\* terminates, returning a value or raising RetryError, after at most
\* retries + 1 invocations and at most retries sleeps; attempt never exceeds
\* retries, and RetryError.attempts is the number of invocations made.
C20_Terminates ==
    /\ <>(pc = "done")
    /\ [](/\ attempt <= retries
          /\ Count(events, "call") <= retries + 1
          /\ Count(events, "sleep") <= retries)
    /\ [](pc = "done" <=> outcome.state \in {"fulfilled", "rejected"})
    /\ [](outcome.state = "rejected" =>
            /\ outcome.error.name = "RetryError"
            /\ outcome.error.attempts = Count(events, "call"))

\* a call with the largest retries used every invocation and every sleep
C20_Witness ==
    /\ pc = "done"
    /\ retries = MaxRetries
    /\ attempt = MaxRetries
    /\ Count(events, "call") = MaxRetries + 1
    /\ Count(events, "sleep") = MaxRetries
    /\ outcome.state = "rejected"
    /\ outcome.error.attempts = MaxRetries + 1

(***************************************************************************)
(* Properties of the registry, continued.                                  *)
(***************************************************************************)
\* C13: at teardown an exception raised while rejecting one entry's promise
\* is caught and logged and does not leave the exit handler, which still
\* rejects and cleans up every other entry left in the registry.
C13_TeardownCatches ==
    [][\A throwing \in SUBSET IssuedIds :
         (/\ last'.op = "exit"
          /\ throwing # {}
          /\ throwing \subseteq {activeTimeouts[i].id : i \in 1..Len(activeTimeouts)}
          /\ ProcessExitThrowing(throwing)) =>
             /\ last'.result = "void"
             /\ last'.error = NoError
             /\ consoleErrors' =
                  consoleErrors \o SelectSeq(MapKeys(activeTimeouts), LAMBDA id : id \in throwing)
             /\ \A i \in 1..Len(activeTimeouts) :
                  LET e == activeTimeouts[i] IN
                  e.id \notin throwing =>
                      /\ promises'[e.controller].state = "rejected"
                      /\ promises'[e.controller].error = ProcessExiting(e.id)
                      /\ \A t \in timers' : t.handle # e.timeout
                      /\ ~MapHas(activeTimeouts', e.id)]_vars

\* rejecting the first entry raised; the error was logged and the second
\* entry was rejected and cleaned up all the same
C13_Witness ==
    /\ exited
    /\ consoleErrors = <<randomUUID(1)>>
    /\ MapKeys(activeTimeouts) = <<randomUUID(1)>>
    /\ \E p \in 1..Len(promises) :
         /\ promises[p].id = randomUUID(2)
         /\ promises[p].state = "rejected"
         /\ promises[p].error = ProcessExiting(randomUUID(2))

\* the promise returned by the k-th call of wait
WaitPromise(k) ==
    CHOOSE p \in 1..Len(promises) :
        /\ promises[p].origin = "wait"
        /\ Cardinality({q \in 1..p : promises[q].origin = "wait"}) = k

\* wait has been called k times or more
Waited(k) == Cardinality(Created("wait")) >= k

\* A promise returned by wait is never rejected and is settled by the firing
\* of its own timer only; until then every other step, cancelWait, updateWait
\* and the exit handler included, leaves its timer armed.
WaitUntouched ==
    /\ \A p \in Created("wait") :
         /\ promises[p].state # "rejected"
         /\ promises[p].calls <= 1
         /\ promises[p].state = "pending" <=>
              \E t \in timers : t.kind = "wait" /\ t.promise = p
    /\ [][\A p \in Created("wait") :
            promises'[p] # promises[p] =>
                /\ last'.op = "timeout"
                /\ last'.promise = p
                /\ promises[p].state = "pending"
                /\ promises'[p].state = "fulfilled"]_vars
    /\ [][\A t \in timers :
            (t.kind = "wait" /\ last'.op \in {"cancelWait", "updateWait", "exit", "waitWithId"}) =>
                t \in timers']_vars

\* C14 as stated: for every d >= 0 the promise returned by wait(d) is
\* eventually resolved and never rejected, and no registry operation can
\* settle or prevent it.
C14_Original ==
    /\ WaitUntouched
    /\ \A k \in 1..MaxWaits :
         Waited(k) ~> (Waited(k) /\ promises[WaitPromise(k)].state = "fulfilled")

\* C14: for every d >= 0 the promise returned by wait(d) is never rejected
\* and is resolved once d has elapsed, unless the process exits first;
\* cancelWait, updateWait and the exit handler neither settle it nor clear
\* its timer, but after exit no timer fires and the promise stays pending.
C14_WaitResolves ==
    /\ WaitUntouched
    /\ \A k \in 1..MaxWaits :
         Waited(k) ~>
           (Waited(k) /\ (promises[WaitPromise(k)].state = "fulfilled" \/ exited))
    /\ [][exited => promises' = promises]_vars

\* the process exited while a wait was pending: the promise is still pending
\* and its timer still armed, next to an entry the exit handler rejected
C14_Witness ==
    /\ exited
    /\ Waited(1)
    /\ promises[WaitPromise(1)].state = "pending"
    /\ \E t \in timers : t.promise = WaitPromise(1)
    /\ \E p \in 1..Len(promises) : promises[p].error.message = "Process exiting"

\* C15: in every reachable state each identifier has at most one entry; an
\* identifier has an armed registry timer exactly when it has an entry; each
\* entry has exactly one armed timer, its own, and a pending promise; so no
\* registry timer is armed without its entry and no entry is without a timer.
C15_EntriesAndTimers ==
    /\ \A i, j \in 1..Len(activeTimeouts) :
         activeTimeouts[i].id = activeTimeouts[j].id => i = j
    /\ \A id \in IdArgs :
         MapHas(activeTimeouts, id) <=> \E t \in RegistryTimers : t.id = id
    /\ \A i \in 1..Len(activeTimeouts) :
         LET e == activeTimeouts[i] IN
         /\ promises[e.controller].state = "pending"
         /\ promises[e.controller].id = e.id
         /\ Cardinality({t \in RegistryTimers : t.id = e.id}) = 1
         /\ \E t \in RegistryTimers :
              t.id = e.id /\ t.handle = e.timeout /\ t.promise = e.controller
    /\ \A t \in RegistryTimers :
         \E i \in 1..Len(activeTimeouts) :
             activeTimeouts[i].id = t.id /\ activeTimeouts[i].timeout = t.handle
    /\ Cardinality(RegistryTimers) = Len(activeTimeouts)

\* one delay was updated and is still armed, the other has completed
C15_Witness ==
    /\ uuids = 2
    /\ Len(activeTimeouts) = 1
    /\ Cardinality(RegistryTimers) = 1
    /\ abandoned # {}
    /\ promises[activeTimeouts[1].controller].origin = "updateWait"
    /\ \E p \in 1..Len(promises) : promises[p].state = "fulfilled"

Keys(m) == {m[i].id : i \in 1..Len(m)}

\* C16: updateWait(id, newMs) on a live id leaves the registry with the same
\* identifiers and exactly one entry under id; the original timer is cleared
\* and its promise left as it was; the new promise is fulfilled only by the
\* firing of the new timer, due newMs after the update whatever the original
\* duration; that firing resolves it with 'Updated timeout ID: {id}' and
\* removes the entry under id and nothing else.
C16_UpdateInPlace ==
    /\ [][\A id \in IdArgs, newMs \in Durations :
            (/\ last'.op = "updateWait"
             /\ last'.id = id
             /\ MapHas(activeTimeouts, id)
             /\ updateWait(id, newMs)) =>
                LET old == MapGet(activeTimeouts, id)
                    new == MapGet(activeTimeouts', id)
                IN
                /\ Keys(activeTimeouts') = Keys(activeTimeouts)
                /\ Len(activeTimeouts') = Len(activeTimeouts)
                /\ Cardinality({i \in 1..Len(activeTimeouts') : activeTimeouts'[i].id = id}) = 1
                /\ \A t \in timers' : t.handle # old.timeout
                /\ promises'[old.controller] = promises[old.controller]
                /\ new.controller = last'.promise
                /\ new.controller # old.controller
                /\ promises'[new.controller].state = "pending"
                /\ {t \in timers' : t.id = id} =
                     {Timer(new.timeout, "updateWait", id, new.controller, newMs)}]_vars
    /\ [][\A p \in Created("updateWait") :
            (promises[p].state = "pending" /\ promises'[p].state = "fulfilled") =>
                /\ last'.op = "timeout"
                /\ last'.promise = p
                /\ \E t \in timers :
                     /\ t.kind = "updateWait"
                     /\ t.promise = p
                     /\ t.remaining = 0
                     /\ timers' = timers \ {t}
                /\ promises'[p].value = "Updated timeout ID: " \o promises[p].id
                /\ MapHas(activeTimeouts, promises[p].id)
                /\ MapGet(activeTimeouts, promises[p].id).controller = p
                /\ activeTimeouts' = MapDelete(activeTimeouts, promises[p].id)]_vars
    /\ \A p \in abandoned : promises[p].state = "pending"

\* an updated delay has just completed while the other delay is still pending;
\* the promise it replaced was never settled
C16_Witness ==
    /\ last.op = "timeout"
    /\ last.promise \in Created("updateWait")
    /\ promises[last.promise].value = "Updated timeout ID: " \o last.id
    /\ ~MapHas(activeTimeouts, last.id)
    /\ Len(activeTimeouts) = 1
    /\ \E p \in abandoned : promises[p].id = last.id /\ promises[p].state = "pending"

\* C17: an identifier whose entry has been removed, by natural completion, by
\* cancellation or by teardown, never has an entry again: waitWithId returns
\* an identifier never issued before, and a later cancelWait(id) returns false
\* and a later updateWait(id) throws TimeoutError 'Timeout not found', both
\* settling no promise and installing nothing.
C17_StaleStaysStale ==
    /\ [][\A id \in IssuedIds :
            ~MapHas(activeTimeouts, id) => ~MapHas(activeTimeouts', id)]_vars
    /\ [][last'.op = "waitWithId" =>
            /\ last'.id \notin IssuedIds
            /\ Keys(activeTimeouts') = Keys(activeTimeouts) \cup {last'.id}]_vars
    /\ [][\A id \in IssuedIds :
            (/\ ~MapHas(activeTimeouts, id)
             /\ last'.id = id
             /\ last'.op \in {"cancelWait", "updateWait"}) =>
                /\ last'.op = "cancelWait" => last'.result = "false"
                /\ last'.op = "updateWait" =>
                     last'.result = "throw" /\ last'.error = NotFound(id)
                /\ activeTimeouts' = activeTimeouts
                /\ timers' = timers
                /\ promises' = promises]_vars

\* updateWait threw for the id of a delay that had completed, while another
\* delay was pending
C17_Witness ==
    /\ last.op = "updateWait"
    /\ last.result = "throw"
    /\ last.id = randomUUID(1)
    /\ \E p \in Created("waitWithId") :
         promises[p].id = randomUUID(1) /\ promises[p].state = "fulfilled"
    /\ activeTimeouts # <<>>

\* C18: every promise returned by waitWithId or updateWait is settled at most
\* once: resolve or reject is called on it at most once, a settled promise
\* never changes again, and a settled promise has neither an entry (so no
\* cancelWait or teardown can reach it) nor an armed timer (so no firing can).
C18_SettledOnce ==
    /\ \A p \in 1..Len(promises) :
         /\ promises[p].calls <= 1
         /\ promises[p].calls = 0 <=> promises[p].state = "pending"
         /\ promises[p].state # "pending" =>
              /\ \A i \in 1..Len(activeTimeouts) : activeTimeouts[i].controller # p
              /\ \A t \in timers : t.promise # p
    /\ [][\A p \in 1..Len(promises) :
            promises[p].state # "pending" => promises'[p] = promises[p]]_vars
    /\ [][\A p \in 1..Len(promises) :
            /\ (promises[p].state = "fulfilled" /\ last'.op = "cancelWait"
                /\ last'.id = promises[p].id /\ last'.result = "true") =>
                   \E q \in 1..Len(promises) :
                       /\ q # p
                       /\ promises[q].state = "pending"
                       /\ promises'[q].state = "rejected"
            /\ (promises[p].state = "rejected" /\ last'.op = "timeout") =>
                   last'.promise # p]_vars

\* cancelWait came too late for a delay that had completed and returned
\* false, after another delay had been cancelled
C18_Witness ==
    /\ last.op = "cancelWait"
    /\ last.result = "false"
    /\ \E p \in 1..Len(promises) :
         /\ promises[p].id = last.id
         /\ promises[p].state = "fulfilled"
         /\ promises[p].calls = 1
    /\ \E q \in 1..Len(promises) :
         /\ promises[q].state = "rejected"
         /\ promises[q].calls = 1

\* the delay of id has completed: one of its promises is fulfilled
Completed(id) ==
    \E p \in 1..Len(promises) : promises[p].id = id /\ promises[p].state = "fulfilled"

\* C19: cancelWait(id1), updateWait(id1, ms) and the natural completion of
\* id1 change neither the entry, nor the armed timer, nor the promise of any
\* other live id2; hence a live id2 completes naturally unless it is itself
\* cancelled or the process exits.
C19_OthersUntouched ==
    /\ [][\A id2 \in Keys(activeTimeouts) :
            (last'.op \in {"cancelWait", "updateWait", "timeout"} /\ last'.id # id2) =>
                LET e == MapGet(activeTimeouts, id2) IN
                /\ MapHas(activeTimeouts', id2)
                /\ MapGet(activeTimeouts', id2) = e
                /\ {t \in timers' : t.id = id2} = {t \in timers : t.id = id2}
                /\ promises'[e.controller] = promises[e.controller]]_vars
    /\ \A n \in 1..MaxDelays :
         MapHas(activeTimeouts, randomUUID(n)) ~>
            (Completed(randomUUID(n)) \/ BagIn(randomUUID(n), cancelLog) \/ exited)

\* updateWait has just replaced the entry of one id while the other id is
\* live with its timer due
C19_Witness ==
    /\ last.op = "updateWait"
    /\ last.result = "promise"
    /\ last.id = randomUUID(1)
    /\ MapHas(activeTimeouts, randomUUID(2))
    /\ \E t \in timers : t.id = randomUUID(2) /\ t.remaining = 0 /\ t.kind = "waitWithId"
    /\ promises[MapGet(activeTimeouts, randomUUID(2)).controller].state = "pending"

====
